---- MODULE Spec2Model ----
(***************************************************************************)
(* Model of src/midware.py: ObjHeap (the size-bounded object cache built   *)
(* on heapq), MemoryCache (expiry on top of ObjHeap) and Cache.__call__    *)
(* (the response cache wrapper).                                           *)
(*                                                                         *)
(* A node object is identified by its key: ObjHeap creates a node only for *)
(* a key that is not in __dict and keeps it in __dict under that key, so   *)
(* `dict` maps a key to the node's fields and `heap` lists the keys of the *)
(* nodes in list order.  List positions are 0-based as in Python; At and   *)
(* Put translate them to TLA+ sequences.                                   *)
(***************************************************************************)
EXTENDS Integers, Sequences, FiniteSets, TLC

VARIABLES size, freq, dict, heap, now, last, recent, inserted, written, origin, got

vars == <<size, freq, dict, heap, now, last, recent, inserted, written, origin, got>>

(* ------------------------------ bounds --------------------------------- *)
MaxCap == 2
NumKeys == 3
MaxFreq == 2
MaxTime == 2
McMaxCap == 2
McNumKeys == 2
McMaxFreq == 2
CacheMaxCap == 1
CacheMaxFreq == 1
NumPaths == 2
LruMaxCap == 3
LruNumKeys == 4
FreshMaxCap == 4
FreshNumKeys == 6

Keys == 1..NumKeys
Caps == 1..MaxCap
LruKeys == 1..LruNumKeys
LruCaps == 1..LruMaxCap
FreshKeys == 1..FreshNumKeys
FreshCaps == 1..FreshMaxCap
Values == {10, 20}
TTLs == {1}
McKeys == 1..McNumKeys
McCaps == 1..McMaxCap
Paths == 1..NumPaths

(* Python's None / a returned value, as an option: <<>> is None.           *)
None == <<>>
Some(x) == <<x>>

Range(s) == {s[i] : i \in 1..Len(s)}

(* ------------------------------ heapq ---------------------------------- *)
At(h, pos) == h[pos + 1]
Put(h, pos, x) == [h EXCEPT ![pos + 1] = x]

(* __lt__ written with <= : equal nodes count as smaller                   *)
lt_le(d, a, b) == d[a].freq <= d[b].freq

(* __node.__lt__: nodes compare by freq alone.                             *)
lt(d, a, b) == d[a].freq < d[b].freq

RECURSIVE siftdownLoop(_, _, _, _, _)
siftdownLoop(h, d, startpos, pos, newitem) ==
    IF pos > startpos
    THEN LET parentpos == (pos - 1) \div 2
             parent == At(h, parentpos)
         IN IF lt(d, newitem, parent)
            THEN siftdownLoop(Put(h, pos, parent), d, startpos, parentpos, newitem)
            ELSE Put(h, pos, newitem)
    ELSE Put(h, pos, newitem)

siftdown(h, d, startpos, pos) == siftdownLoop(h, d, startpos, pos, At(h, pos))

RECURSIVE siftupLoop(_, _, _, _, _)
siftupLoop(h, d, startpos, pos, newitem) ==
    LET endpos == Len(h)
        childpos == 2 * pos + 1
    IN IF childpos < endpos
       THEN LET rightpos == childpos + 1
                c == IF rightpos < endpos /\ ~lt(d, At(h, childpos), At(h, rightpos))
                     THEN rightpos ELSE childpos
            IN siftupLoop(Put(h, pos, At(h, c)), d, startpos, c, newitem)
       ELSE siftdown(Put(h, pos, newitem), d, startpos, pos)

siftup(h, d, pos) == siftupLoop(h, d, pos, pos, At(h, pos))

heappush(h, d, item) == siftdown(Append(h, item), d, 0, Len(h))

(* heappop of a non-empty list: the item returned and the list left.       *)
heappop(h, d) ==
    LET lastelt == h[Len(h)]
        rest == SubSeq(h, 1, Len(h) - 1)
    IN IF rest # <<>>
       THEN [item |-> rest[1], heap |-> siftup(Put(rest, 0, lastelt), d, 0)]
       ELSE [item |-> lastelt, heap |-> rest]

RECURSIVE heapifyFrom(_, _, _)
heapifyFrom(h, d, i) ==
    IF i < 0 THEN h ELSE heapifyFrom(siftup(h, d, i), d, i - 1)

heapify(h, d) == heapifyFrom(h, d, (Len(h) \div 2) - 1)

(* ------------------------------ ObjHeap -------------------------------- *)
node(k, v, f) == [k |-> k, v |-> v, freq |-> f]

oh == [size |-> size, freq |-> freq, dict |-> dict, heap |-> heap]

ObjHeap(sz) == [size |-> sz, freq |-> 0, dict |-> <<>>, heap |-> <<>>]

len(o) == Cardinality(DOMAIN o.dict)

contains(o, k) == k \in DOMAIN o.dict

without(d, k) == [x \in DOMAIN d \ {k} |-> d[x]]

(* list.remove: drops the first occurrence.                                *)
remove(h, x) ==
    LET i == CHOOSE j \in 1..Len(h) : h[j] = x /\ \A m \in 1..(j - 1) : h[m] # x
    IN SubSeq(h, 1, i - 1) \o SubSeq(h, i + 1, Len(h))

(* One pass of the while body of __setitem__: pop, del, reset every freq.  *)
evictOne(o) ==
    LET p == heappop(o.heap, o.dict)
        d1 == without(o.dict, p.item)
        d2 == [x \in DOMAIN d1 |->
                 IF x \in Range(p.heap) THEN [d1[x] EXCEPT !.freq = 0] ELSE d1[x]]
    IN [o EXCEPT !.freq = 0, !.dict = d2, !.heap = p.heap]

(* eviction loop that starts one entry below capacity                     *)
RECURSIVE evict_early(_)
evict_early(o) ==
    IF Len(o.heap) > 0 /\ Len(o.heap) >= o.size - 1
    THEN evict_early(evictOne(o)) ELSE o

RECURSIVE evict(_)
evict(o) == IF Len(o.heap) >= o.size THEN evict(evictOne(o)) ELSE o

(* setitem with the eviction loop running only above capacity (> for >=)  *)
RECURSIVE evict_late(_)
evict_late(o) == IF Len(o.heap) > o.size THEN evict_late(evictOne(o)) ELSE o

setitem_late(o, k, v) ==
    IF k \in DOMAIN o.dict
    THEN LET f == o.freq + 1
             d == [o.dict EXCEPT ![k] = [@ EXCEPT !.v = v, !.freq = f]]
         IN [o EXCEPT !.freq = f, !.dict = d, !.heap = heapify(o.heap, d)]
    ELSE LET e == evict_late(o)
             n == node(k, v, e.freq)
             d == [x \in DOMAIN e.dict \cup {k} |-> IF x = k THEN n ELSE e.dict[x]]
         IN [e EXCEPT !.dict = d, !.heap = heappush(e.heap, d, k)]

(* setitem that touches a resident key but keeps its old value            *)
setitem_keepvalue(o, k, v) ==
    IF k \in DOMAIN o.dict
    THEN LET f == o.freq + 1
             d == [o.dict EXCEPT ![k] = [@ EXCEPT !.freq = f]]
         IN [o EXCEPT !.freq = f, !.dict = d, !.heap = heapify(o.heap, d)]
    ELSE LET e == evict(o)
             n == node(k, v, e.freq)
             d == [x \in DOMAIN e.dict \cup {k} |-> IF x = k THEN n ELSE e.dict[x]]
         IN [e EXCEPT !.dict = d, !.heap = heappush(e.heap, d, k)]

setitem(o, k, v) ==
    IF k \in DOMAIN o.dict
    THEN LET f == o.freq + 1
             d == [o.dict EXCEPT ![k] = [@ EXCEPT !.v = v, !.freq = f]]
         IN [o EXCEPT !.freq = f, !.dict = d, !.heap = heapify(o.heap, d)]
    ELSE LET e == evict(o)
             n == node(k, v, e.freq)
             d == [x \in DOMAIN e.dict \cup {k} |-> IF x = k THEN n ELSE e.dict[x]]
         IN [e EXCEPT !.dict = d, !.heap = heappush(e.heap, d, k)]

(* getitem answering a missing key with None, as dict.get would           *)
getitem_default(o, k) ==
    IF k \notin DOMAIN o.dict
    THEN [o |-> o, exc |-> "", ret |-> None]
    ELSE LET f == o.freq + 1
             d == [o.dict EXCEPT ![k] = [@ EXCEPT !.freq = f]]
         IN [o |-> [o EXCEPT !.freq = f, !.dict = d, !.heap = heapify(o.heap, d)],
             exc |-> "", ret |-> Some(d[k].v)]

(* getitem that raises the node's freq and leaves the heap list as it is  *)
getitem_noheapify(o, k) ==
    IF k \notin DOMAIN o.dict
    THEN [o |-> o, exc |-> "KeyError", ret |-> None]
    ELSE LET f == o.freq + 1
             d == [o.dict EXCEPT ![k] = [@ EXCEPT !.freq = f]]
         IN [o |-> [o EXCEPT !.freq = f, !.dict = d],
             exc |-> "", ret |-> Some(d[k].v)]

(* getitem that returns the value without touching the node               *)
getitem_notouch(o, k) ==
    IF k \notin DOMAIN o.dict
    THEN [o |-> o, exc |-> "KeyError", ret |-> None]
    ELSE [o |-> o, exc |-> "", ret |-> Some(o.dict[k].v)]

getitem(o, k) ==
    IF k \notin DOMAIN o.dict
    THEN [o |-> o, exc |-> "KeyError", ret |-> None]
    ELSE LET f == o.freq + 1
             d == [o.dict EXCEPT ![k] = [@ EXCEPT !.freq = f]]
         IN [o |-> [o EXCEPT !.freq = f, !.dict = d, !.heap = heapify(o.heap, d)],
             exc |-> "", ret |-> Some(d[k].v)]

(* delitem that drops the key from the mapping and leaves the heap list    *)
delitem_keepheap(o, k) ==
    IF k \notin DOMAIN o.dict
    THEN [o |-> o, exc |-> "KeyError", ret |-> None]
    ELSE [o |-> [o EXCEPT !.dict = without(o.dict, k)],
          exc |-> "", ret |-> Some(o.dict[k].v)]

delitem(o, k) ==
    IF k \notin DOMAIN o.dict
    THEN [o |-> o, exc |-> "KeyError", ret |-> None]
    ELSE LET d == without(o.dict, k)
             h == remove(o.heap, k)
         IN [o |-> [o EXCEPT !.dict = d, !.heap = heapify(h, d)],
             exc |-> "", ret |-> Some(o.dict[k].v)]

RECURSIVE drain(_, _)
drain(c, d) ==
    IF Len(c) = 0 THEN <<>>
    ELSE LET p == heappop(c, d) IN <<p.item>> \o drain(p.heap, d)

iter(o) == drain(o.heap, o.dict)

(* --------------------------- bookkeeping ------------------------------- *)
(* last: the call that just returned: op, key, value passed (for inner:    *)
(* what the handler returned, None when it was not called), exception      *)
(* raised to the caller, return value, keys yielded, whether the key was   *)
(* resident when the call began, and the keys that left the container      *)
(* during the call, with the values they held (lost), and the keys in got  *)
(* when the call began.                                                    *)
(* recent: the resident keys, least recently set or got first.             *)
(* inserted: the keys set so far, in order, while every call since         *)
(* construction was a set of a key never set before (phase "sets"), or     *)
(* such sets followed by one single read (phase "probe").                  *)
(* written: for each resident key, the (v, expiry instant) its latest      *)
(* set_data was given.  origin: for each resident path, the response the   *)
(* handler returned on the call that stored it, and the time of that call. *)
(* got: the resident keys read by a successful get after which no key was  *)
(* inserted or deleted and the key itself was not set again.               *)
Call(op, k, v, exc, ret, yield, o2) ==
    [op |-> op, k |-> k, v |-> v, exc |-> exc, ret |-> ret, yield |-> yield,
     had |-> k \in DOMAIN dict, gone |-> DOMAIN dict \ DOMAIN o2.dict,
     lost |-> [x \in DOMAIN dict \ DOMAIN o2.dict |-> dict[x].v], got |-> got]

NoCall ==
    [op |-> "init", k |-> 0, v |-> None, exc |-> "", ret |-> None, yield |-> <<>>,
     had |-> FALSE, gone |-> {}, lost |-> <<>>, got |-> {}]

Apply(o) ==
    /\ size' = o.size
    /\ freq' = o.freq
    /\ dict' = o.dict
    /\ heap' = o.heap

touch(r, k, D) == Append(SelectSeq(r, LAMBDA x : x # k /\ x \in D), k)
keep(r, D) == SelectSeq(r, LAMBDA x : x \in D)
track(r, k, D) == IF k \in D THEN touch(r, k, D) ELSE keep(r, D)

Fresh == [phase |-> "sets", keys |-> <<>>]
NotFresh == [phase |-> "other", keys |-> <<>>]
afterSet(ins, k) ==
    IF ins.phase = "sets" /\ k \notin Range(ins.keys)
    THEN [ins EXCEPT !.keys = Append(@, k)]
    ELSE NotFresh
afterRead(ins) ==
    IF ins.phase = "sets" THEN [ins EXCEPT !.phase = "probe"] ELSE NotFresh

(* ---------------------------- heap calls ------------------------------- *)
Set(k, v) ==
    /\ k \in DOMAIN dict => freq < MaxFreq
    /\ LET o == setitem(oh, k, v)
       IN /\ Apply(o)
          /\ recent' = track(recent, k, DOMAIN o.dict)
          /\ last' = Call("set", k, Some(v), "", None, <<>>, o)
    /\ inserted' = afterSet(inserted, k)
    /\ got' = IF k \in DOMAIN dict THEN got \ {k} ELSE {}
    /\ UNCHANGED <<now, written, origin>>

Get(k) ==
    /\ k \in DOMAIN dict => freq < MaxFreq
    /\ LET r == getitem(oh, k)
       IN /\ Apply(r.o)
          /\ recent' = track(recent, k, DOMAIN r.o.dict)
          /\ last' = Call("get", k, None, r.exc, r.ret, <<>>, r.o)
    /\ inserted' = afterRead(inserted)
    /\ got' = IF k \in DOMAIN dict THEN got \cup {k} ELSE got
    /\ UNCHANGED <<now, written, origin>>

Del(k) ==
    /\ LET r == delitem(oh, k)
       IN /\ Apply(r.o)
          /\ recent' = keep(recent, DOMAIN r.o.dict)
          /\ last' = Call("del", k, None, r.exc, r.ret, <<>>, r.o)
    /\ inserted' = NotFresh
    /\ got' = IF k \in DOMAIN dict THEN {} ELSE got
    /\ UNCHANGED <<now, written, origin>>

(* True is 1 and False is 0.                                               *)
Contains(k) ==
    /\ last' = Call("contains", k, None, "", Some(IF contains(oh, k) THEN 1 ELSE 0),
                    <<>>, oh)
    /\ inserted' = NotFresh
    /\ UNCHANGED <<size, freq, dict, heap, now, recent, written, origin, got>>

(* The generator ends with `raise StopIteration`: a plain end of the       *)
(* iteration before PEP 479, a RuntimeError at the consumer from Python    *)
(* 3.7 on.                                                                 *)
Iter ==
    /\ \E pep479 \in BOOLEAN :
         last' = Call("iter", 0, None, IF pep479 THEN "RuntimeError" ELSE "",
                      None, iter(oh), oh)
    /\ inserted' = NotFresh
    /\ UNCHANGED <<size, freq, dict, heap, now, recent, written, origin, got>>

(* ---------------------------- MemoryCache ------------------------------ *)
(* time.time() is `now`; a stored value is the pair (v, expiry instant).   *)
(* get_data that forgets the expiry test                                  *)
get_data_noexpiry(o, t, k) ==
    LET r == getitem(o, k)
    IN IF r.exc = "KeyError"
       THEN [o |-> r.o, ret |-> None]
       ELSE [o |-> r.o, ret |-> Some(r.ret[1][1])]

get_data(o, t, k) ==
    LET r == getitem(o, k)
    IN IF r.exc = "KeyError"
       THEN [o |-> r.o, ret |-> None]
       ELSE IF r.ret[1][2] >= t
            THEN [o |-> r.o, ret |-> Some(r.ret[1][1])]
            ELSE [o |-> delitem(r.o, k).o, ret |-> None]

(* set_data that first drops every entry whose expiry instant has passed  *)
set_data_purge(o, t, k, v, exp) ==
    LET D == {x \in DOMAIN o.dict : o.dict[x].v[2] >= t}
        d == [x \in D |-> o.dict[x]]
        h == SelectSeq(o.heap, LAMBDA x : x \in D)
    IN setitem([o EXCEPT !.dict = d, !.heap = heapify(h, d)], k, <<v, t + exp>>)

set_data(o, t, k, v, exp) == setitem(o, k, <<v, t + exp>>)

SetData(k, v, exp) ==
    /\ k \in DOMAIN dict => freq < McMaxFreq
    /\ LET o == set_data(oh, now, k, v, exp)
       IN /\ Apply(o)
          /\ recent' = track(recent, k, DOMAIN o.dict)
          /\ last' = Call("set_data", k, Some(v), "", None, <<>>, o)
          /\ written' = [x \in DOMAIN o.dict |->
                           IF x = k THEN <<v, now + exp>> ELSE written[x]]
    /\ inserted' = afterSet(inserted, k)
    /\ UNCHANGED <<now, origin, got>>

GetData(k) ==
    /\ k \in DOMAIN dict => freq < McMaxFreq
    /\ LET r == get_data(oh, now, k)
       IN /\ Apply(r.o)
          /\ recent' = track(recent, k, DOMAIN r.o.dict)
          /\ last' = Call("get_data", k, None, "", r.ret, <<>>, r.o)
          /\ written' = [x \in DOMAIN r.o.dict |-> written[x]]
    /\ inserted' = afterRead(inserted)
    /\ UNCHANGED <<now, origin, got>>

(* time passes between calls                                               *)
Tick ==
    /\ now < MaxTime
    /\ now' = now + 1
    /\ last' = [NoCall EXCEPT !.op = "sleep"]
    /\ inserted' = IF inserted.phase = "sets" THEN inserted ELSE NotFresh
    /\ UNCHANGED <<size, freq, dict, heap, recent, written, origin, got>>

(* ------------------------------- Cache -------------------------------- *)
(* A response as the wrapper uses it: res.body, res.cache, the headers it  *)
(* writes with res[...] = ..., and whether pickle can serialize the object.*)
(* Absent is the handler's None.                                           *)
Response(body, cache, picklable) ==
    [present |-> TRUE, body |-> body, cache |-> cache, headers |-> {},
     picklable |-> picklable]

Absent ==
    [present |-> FALSE, body |-> "", cache |-> 0, headers |-> {}, picklable |-> TRUE]

Bodies == {"", "a"}
Lifetimes == {-1, 0, 1}
Responses ==
    {Absent} \cup {Response(b, c, pk) : b \in Bodies, c \in Lifetimes, pk \in BOOLEAN}

(* 'max-age=%d' % n                                                        *)
maxage(n) == <<"max-age=", n>>

(* res[name] = value: one value per header name.                           *)
setheader(res, name, value) ==
    [res EXCEPT !.headers = {h \in @ : h[1] # name} \cup {<<name, value>>}]

(* pickle.dumps(res, 2) of a picklable response and pickle.loads of it.    *)
dumps(res) == <<2, res.body, res.cache, res.headers>>
loads(p) ==
    [present |-> TRUE, body |-> p[2], cache |-> p[3], headers |-> p[4],
     picklable |-> TRUE]

(* truth value of what get_data returned: None and empty data are false.   *)
truthy(ret) == ret # None /\ Len(ret[1]) > 0

(* inner(req) with req.url.path = path; res is what func(req) returns when *)
(* it is called.                                                           *)
(* inner that pickles the response before it writes the header           *)
inner_header_late(o, t, path, res) ==
    LET g == get_data(o, t, path)
    IN IF truthy(g.ret)
       THEN [o |-> g.o, invoked |-> FALSE, stored |-> FALSE, exc |-> "",
             ret |-> Some(loads(g.ret[1]))]
       ELSE IF res.present /\ res.cache # 0 /\ res.body # ""
            THEN LET res1 == setheader(res, "Cache-Control", maxage(res.cache))
                 IN IF res1.picklable
                    THEN [o |-> set_data(g.o, t, path, dumps(res), res1.cache),
                          invoked |-> TRUE, stored |-> TRUE, exc |-> "",
                          ret |-> Some(res1)]
                    ELSE [o |-> g.o, invoked |-> TRUE, stored |-> FALSE,
                          exc |-> "PicklingError", ret |-> None]
            ELSE [o |-> g.o, invoked |-> TRUE, stored |-> FALSE, exc |-> "",
                  ret |-> Some(res)]

inner(o, t, path, res) ==
    LET g == get_data(o, t, path)
    IN IF truthy(g.ret)
       THEN [o |-> g.o, invoked |-> FALSE, stored |-> FALSE, exc |-> "",
             ret |-> Some(loads(g.ret[1]))]
       ELSE IF res.present /\ res.cache # 0 /\ res.body # ""
            THEN LET res1 == setheader(res, "Cache-Control", maxage(res.cache))
                 IN IF res1.picklable
                    THEN [o |-> set_data(g.o, t, path, dumps(res1), res1.cache),
                          invoked |-> TRUE, stored |-> TRUE, exc |-> "",
                          ret |-> Some(res1)]
                    ELSE [o |-> g.o, invoked |-> TRUE, stored |-> FALSE,
                          exc |-> "PicklingError", ret |-> None]
            ELSE [o |-> g.o, invoked |-> TRUE, stored |-> FALSE, exc |-> "",
                  ret |-> Some(res)]

(* On a hit func is not called: no response is drawn for it.               *)
Inner(path, res) ==
    /\ path \in DOMAIN dict => freq < CacheMaxFreq
    /\ truthy(get_data(oh, now, path).ret) => res = Absent
    /\ LET r == inner(oh, now, path, res)
       IN /\ Apply(r.o)
          /\ recent' = track(recent, path, DOMAIN r.o.dict)
          /\ last' = Call("inner", path, IF r.invoked THEN Some(res) ELSE None,
                          r.exc, r.ret, <<>>, r.o)
          /\ origin' = [x \in DOMAIN r.o.dict |->
                          IF x = path /\ r.stored
                          THEN [res |-> res, at |-> now] ELSE origin[x]]
    /\ inserted' = NotFresh
    /\ UNCHANGED <<now, written, got>>

Init ==
    /\ size \in Caps
    /\ freq = 0
    /\ dict = <<>>
    /\ heap = <<>>
    /\ now = 0
    /\ last = NoCall
    /\ recent = <<>>
    /\ inserted = Fresh
    /\ written = <<>>
    /\ origin = <<>>
    /\ got = {}

Next ==
    \/ \E k \in Keys, v \in Values : Set(k, v)
    \/ \E k \in Keys : Get(k)
    \/ \E k \in Keys : Del(k)
    \/ \E k \in Keys : Contains(k)
    \/ Iter

Spec == Init /\ [][Next]_vars

(* set/get/delete alone, on a larger heap                                  *)
InitLRU ==
    /\ size \in LruCaps
    /\ freq = 0 /\ dict = <<>> /\ heap = <<>> /\ now = 0 /\ last = NoCall
    /\ recent = <<>> /\ inserted = Fresh
    /\ written = <<>> /\ origin = <<>> /\ got = {}

NextLRU ==
    \/ \E k \in LruKeys : Set(k, 10)
    \/ \E k \in LruKeys : Get(k)
    \/ \E k \in LruKeys : Del(k)

SpecLRU == InitLRU /\ [][NextLRU]_vars

(* the same heap, iterated between the calls                               *)
NextIter ==
    \/ NextLRU
    \/ Iter

SpecIter == InitLRU /\ [][NextIter]_vars

(* nothing but sets of keys never set before                               *)
InitFresh ==
    /\ size \in FreshCaps
    /\ freq = 0 /\ dict = <<>> /\ heap = <<>> /\ now = 0 /\ last = NoCall
    /\ recent = <<>> /\ inserted = Fresh
    /\ written = <<>> /\ origin = <<>> /\ got = {}

NextFresh ==
    \E k \in FreshKeys \ Range(inserted.keys), v \in Values : Set(k, v)

SpecFresh == InitFresh /\ [][NextFresh]_vars

(* the expiring cache                                                      *)
InitMC ==
    /\ size \in McCaps
    /\ freq = 0 /\ dict = <<>> /\ heap = <<>> /\ now = 0 /\ last = NoCall
    /\ recent = <<>> /\ inserted = Fresh
    /\ written = <<>> /\ origin = <<>> /\ got = {}

NextMC ==
    \/ \E k \in McKeys, v \in Values, exp \in TTLs : SetData(k, v, exp)
    \/ \E k \in McKeys : GetData(k)
    \/ Tick

SpecMC == InitMC /\ [][NextMC]_vars

(* the expiring cache with one key more than its capacity, each key with   *)
(* one value                                                               *)
LazyKeys == 1..(McMaxCap + 1)

InitLazy ==
    /\ size = McMaxCap
    /\ freq = 0 /\ dict = <<>> /\ heap = <<>> /\ now = 0 /\ last = NoCall
    /\ recent = <<>> /\ inserted = Fresh
    /\ written = <<>> /\ origin = <<>> /\ got = {}

NextLazy ==
    \/ \E k \in LazyKeys, exp \in TTLs : SetData(k, 10 * k, exp)
    \/ \E k \in LazyKeys : GetData(k)
    \/ Tick

SpecLazy == InitLazy /\ [][NextLazy]_vars

(* set_data of keys never set before, then one get_data                    *)
InitProbe ==
    /\ size \in LruCaps
    /\ freq = 0 /\ dict = <<>> /\ heap = <<>> /\ now = 0 /\ last = NoCall
    /\ recent = <<>> /\ inserted = Fresh
    /\ written = <<>> /\ origin = <<>> /\ got = {}

NextProbe ==
    \/ \E k \in LruKeys \ Range(inserted.keys) :
         inserted.phase = "sets" /\ SetData(k, 10 * k, 1)
    \/ \E k \in LruKeys : inserted.phase = "sets" /\ GetData(k)

SpecProbe == InitProbe /\ [][NextProbe]_vars

(* the wrapped handler                                                     *)
NextCache ==
    \/ \E path \in Paths, res \in Responses : Inner(path, res)
    \/ Tick

InitCache ==
    /\ size = CacheMaxCap
    /\ freq = 0 /\ dict = <<>> /\ heap = <<>> /\ now = 0 /\ last = NoCall
    /\ recent = <<>> /\ inserted = Fresh
    /\ written = <<>> /\ origin = <<>> /\ got = {}

SpecCache == InitCache /\ [][NextCache]_vars

(* ============================== claims ================================= *)
resident == DOMAIN dict

lastN(q, n) == {q[i] : i \in (Len(q) - n + 1)..Len(q)}

(* C1: after every heap call (set, get, delete, contains, iterate) the     *)
(* number of entries is at most the capacity.                              *)
C1_SizeWithinCapacity == len(oh) <= size

(* a set of a new key has just pushed an older key out of a full heap      *)
C1_Witness ==
    /\ last.op = "set" /\ ~last.had /\ last.gone # {}
    /\ len(oh) = size /\ size >= 2

(* C2: a set of a non-resident key on a full heap removes exactly the      *)
(* resident key whose latest set or get is the oldest.                     *)
C2_EvictsLeastRecentlyTouched ==
    [][(last'.op = "set" /\ last'.k \notin resident /\ len(oh) = size)
         => resident \ DOMAIN dict' = {recent[1]}]_vars

(* C3: while every call so far has been a set of a key never set before,   *)
(* once more than `size` keys have been set the heap holds exactly the     *)
(* `size` keys set last.                                                   *)
C3_KeepsLastInserted ==
    (inserted.phase = "sets" /\ Len(inserted.keys) > size)
        => resident = lastN(inserted.keys, size)

(* C4: no two resident entries have the same recency value.                *)
C4_RecencyDistinct ==
    \A a \in resident : \A b \in resident : a # b => dict[a].freq # dict[b].freq

(* C5: get_data of a key that set_data stored and that is still resident  *)
(* returns the stored value before the expiry instant; after the expiry    *)
(* instant it returns None and the key is no longer in the heap.           *)
C5_GetDataHonoursExpiry ==
    [][(last'.op = "get_data" /\ last'.k \in resident)
         => LET k == last'.k
                v == written[k][1]
                expiry == written[k][2]
            IN /\ now < expiry => last'.ret = Some(v)
               /\ now > expiry => (last'.ret = None /\ k \notin DOMAIN dict')]_vars

(* get_data has just found its key expired and dropped it                  *)
C5_Witness ==
    /\ last.op = "get_data" /\ last.had /\ last.ret = None
    /\ last.k \in last.gone /\ last.k \notin resident

(* C6: on a new cache, after set_data of size + 1 pairwise distinct keys   *)
(* and no read, get_data of the first key set returns None, whatever its   *)
(* expiry instant.                                                         *)
C6_FirstKeyEvicted ==
    (/\ inserted.phase = "probe" /\ Len(inserted.keys) = size + 1
     /\ last.op = "get_data" /\ last.k = inserted.keys[1])
        => last.ret = None

(* the first key read back right after size + 1 sets, at time 0: nothing   *)
(* has expired yet, the key is gone all the same                           *)
C6_Witness ==
    /\ inserted.phase = "probe" /\ Len(inserted.keys) = size + 1
    /\ last.op = "get_data" /\ last.k = inserted.keys[1] /\ last.ret = None
    /\ ~last.had /\ now = 0

(* C7: a call of the wrapped handler on a path whose stored entry (a       *)
(* response with lifetime N > 0 and a non-empty body) is resident and not  *)
(* expired does not call the handler and returns that response: same body, *)
(* same lifetime, header Cache-Control: max-age=N.                         *)
C7_HitServesStoredResponse ==
    [][(/\ last'.op = "inner" /\ last'.k \in resident
        /\ origin[last'.k].res.cache > 0
        /\ now <= origin[last'.k].at + origin[last'.k].res.cache)
         => LET h == origin[last'.k].res
            IN /\ last'.v = None
               /\ last'.exc = ""
               /\ last'.ret # None
               /\ last'.ret[1].body = h.body
               /\ last'.ret[1].cache = h.cache
               /\ <<"Cache-Control", maxage(h.cache)>> \in last'.ret[1].headers]_vars

(* a hit after time has passed: the handler was not called                 *)
C7_Witness ==
    /\ last.op = "inner" /\ last.had /\ last.v = None /\ last.ret # None
    /\ last.k \in DOMAIN origin /\ now > origin[last.k].at

(* C8: a call in which the handler returns no response, or a lifetime      *)
(* that is zero or negative, or an empty body, stores nothing and evicts   *)
(* nothing: afterwards the path has no entry and no other key has left.    *)
C8_NothingStoredUnlessCacheable ==
    (/\ last.op = "inner" /\ last.v # None
     /\ (~last.v[1].present \/ last.v[1].cache <= 0 \/ last.v[1].body = ""))
        => (last.k \notin resident /\ last.gone \subseteq {last.k})

(* C9: get and delete of a key that is not resident raise KeyError, return *)
(* nothing and leave size, counter, mapping and heap list as they were.    *)
C9_MissingKeyRaises ==
    [][(last'.op \in {"get", "del"} /\ last'.k \notin resident)
         => /\ last'.exc = "KeyError"
            /\ last'.ret = None
            /\ <<size, freq, dict, heap>>' = <<size, freq, dict, heap>>]_vars

(* a get or delete of a missing key on a non-empty heap has raised         *)
C9_Witness ==
    /\ last.op \in {"get", "del"} /\ ~last.had /\ last.exc = "KeyError"
    /\ resident # {}

(* C10: a call of the wrapped handler never ends in an error: it returns   *)
(* a response even when serialization fails.                               *)
C10_SerializationNeverAborts ==
    last.op = "inner" => (last.exc = "" /\ last.ret # None)

(* C11: iterating the heap yields every resident key exactly once, the     *)
(* least recently set or got key first and the most recently touched one   *)
(* last.                                                                   *)
C11_IterInRecencyOrder ==
    last.op = "iter" => last.yield = recent

(* C12: set(k, v) leaves k resident with value v; get of a resident key    *)
(* returns the value its latest set stored; no call changes the value of   *)
(* another resident key; delete of a resident key leaves contains(k) false *)
(* and the size lower by exactly one.                                      *)
C12_SetGetDelete ==
    [][LET k == last'.k
       IN /\ last'.op = "set"
               => (k \in DOMAIN dict' /\ dict'[k].v = last'.v[1])
          /\ (last'.op = "get" /\ k \in resident)
               => (last'.exc = "" /\ last'.ret = Some(dict[k].v))
          /\ (last'.op = "del" /\ k \in resident)
               => (k \notin DOMAIN dict' /\ len(oh)' = len(oh) - 1)
          /\ \A x \in resident \cap DOMAIN dict' :
               (last'.op = "set" /\ x = k) \/ dict'[x].v = dict[x].v]_vars

(* a resident key read back beside another resident key                    *)
C12_Witness ==
    /\ last.op = "get" /\ last.had /\ last.ret = Some(20)
    /\ Cardinality(resident) = 2

(* C13 as stated: with capacity 2 or more, the first set of a new key on a *)
(* full heap after get(k) does not remove k, however many gets and sets of *)
(* other resident keys came in between.                                    *)
C13_GetProtectsFromNextEviction ==
    [][(last'.op = "set" /\ ~last'.had /\ size >= 2)
         => last'.gone \cap got = {}]_vars

(* C13 amended: with capacity 2 or more, the first set of a new key on a   *)
(* full heap after get(k) does not remove k as long as some other resident *)
(* key has not been set or got since that get.                             *)
C13_GetProtectsWhileNotOldest ==
    [][(last'.op = "set" /\ ~last'.had /\ size >= 2)
         => \A k \in got : k # recent[1] => k \notin last'.gone]_vars

(* a set of a new key on a full heap has removed a key and spared the key  *)
(* read by a get before it                                                 *)
C13_Witness ==
    /\ last.op = "set" /\ ~last.had /\ last.gone # {} /\ size >= 2
    /\ last.got # {} /\ last.got \cap last.gone = {}

(* C14: over any sequence of set, get and delete the recency counter never *)
(* decreases, and neither does the recency value of an entry that stays    *)
(* resident.                                                               *)
C14_RecencyNeverDecreases ==
    [][/\ freq' >= freq
       /\ \A k \in resident \cap DOMAIN dict' : dict'[k].freq >= dict[k].freq]_vars

(* C15: a key leaves the heap only by a delete of that key or by a set of  *)
(* a new key on a full heap.  Get, contains, iterate and set of a resident *)
(* key remove nothing, also at capacity; set of a new key removes exactly  *)
(* one key when the heap was full and none when it was below capacity.     *)
C15_KeysLeaveOnlyByDeleteOrEviction ==
    LET before == len(oh) - 1 + Cardinality(last.gone)
    IN /\ last.op \in {"get", "contains", "iter"} => last.gone = {}
       /\ (last.op = "set" /\ last.had) => last.gone = {}
       /\ last.op = "del" => last.gone = (IF last.had THEN {last.k} ELSE {})
       /\ (last.op = "set" /\ ~last.had)
            => /\ last.k \notin last.gone
               /\ before = size => Cardinality(last.gone) = 1
               /\ before < size => last.gone = {}
               /\ before <= size

(* a set of a resident key on a full heap has removed nothing              *)
C15_Witness ==
    /\ last.op = "set" /\ last.had /\ last.gone = {}
    /\ len(oh) = size /\ size >= 2

(* C16: expiry is lazy.  The passage of time removes nothing, and set_data *)
(* removes nothing but the one entry a new key pushes out of a full cache, *)
(* whatever has expired: an expired entry stays resident, and counts       *)
(* toward the size, until get_data of its key or an eviction removes it.   *)
C16_ExpiryIsLazy ==
    LET before == len(oh) - 1 + Cardinality(last.gone)
    IN /\ last.op = "sleep" => last.gone = {}
       /\ (last.op = "set_data" /\ last.had) => last.gone = {}
       /\ (last.op = "set_data" /\ ~last.had)
            => /\ before = size => Cardinality(last.gone) = 1
               /\ before < size => last.gone = {}
       /\ last.op = "get_data" => last.gone \subseteq {last.k}

(* set_data of a new key on a full cache has evicted an entry that had not *)
(* expired while an expired entry stays resident                           *)
C16_Witness ==
    /\ last.op = "set_data" /\ ~last.had /\ len(oh) = size
    /\ \E x \in last.gone : last.lost[x][2] >= now
    /\ \E y \in resident \ {last.k} : written[y][2] < now

(* C17: iterating a heap of n entries yields exactly n keys and then ends  *)
(* normally: no error reaches the consumer.                                *)
C17_IterEndsNormally ==
    last.op = "iter" => (Len(last.yield) = len(oh) /\ last.exc = "")

(* C18: after every heap call the mapping and the heap list hold the same  *)
(* entries: the same keys, each exactly once in the list, each key mapped  *)
(* to its own node.                                                        *)
C18_MappingMatchesHeap ==
    /\ Range(heap) = DOMAIN dict
    /\ Len(heap) = Cardinality(DOMAIN dict)
    /\ \A k \in DOMAIN dict : dict[k].k = k

(* a delete has taken one of several entries out of both structures        *)
C18_Witness ==
    /\ last.op = "del" /\ last.had /\ last.k \notin Range(heap)
    /\ Len(heap) >= 1

(* C19: with capacity 2 or more, the entry touched by the call just before *)
(* (a get, a set of a resident key, or the insertion of a new key) is not  *)
(* the entry removed by a directly following set of a new key.             *)
C19_JustTouchedSurvivesNextInsert ==
    [][(/\ size >= 2
        /\ last.op \in {"get", "set"} /\ last.exc = "" /\ last.k \in resident
        /\ last'.op = "set" /\ ~last'.had)
         => last.k \notin last'.gone]_vars

(* size + 1 new keys set in a row: the last set evicted a key, and the key *)
(* inserted just before it is still resident                               *)
C19_Witness ==
    /\ size >= 2 /\ inserted.phase = "sets" /\ Len(inserted.keys) = size + 1
    /\ last.op = "set" /\ ~last.had /\ last.gone # {}
    /\ inserted.keys[size] \in resident

(* C20: after every heap call the heap list is a min-heap on freq: no      *)
(* entry has a smaller freq than its parent, so the root, which is the     *)
(* entry an eviction pops, has a freq no larger than any resident entry.   *)
C20_HeapOrdered ==
    /\ \A i \in 2..Len(heap) : dict[heap[i \div 2]].freq <= dict[heap[i]].freq
    /\ \A k \in resident : dict[heap[1]].freq <= dict[k].freq

(* a get has left the entry it touched below a root of smaller freq        *)
C20_Witness ==
    /\ last.op = "get" /\ last.had /\ Len(heap) >= 2
    /\ last.k # heap[1]
    /\ dict[heap[1]].freq < dict[last.k].freq

====
